---- MODULE Spec2Model ----
(***************************************************************************)
(* Model of asigiuk/smart_pet_bowl, src/Camera.py.                         *)
(*                                                                         *)
(* FileAccess: the five file-operation helpers and file_access_upload,     *)
(* stepped statement group by statement group.  The camera (the vendor     *)
(* SDK and the device behind it) is the environment: every value the code  *)
(* reads from it and every exception an SDK call may raise is drawn        *)
(* nondeterministically.                                                   *)
(***************************************************************************)
EXTENDS Integers, Sequences, FiniteSets, TLC

\* ---------------------------------------------------------------- bounds
MaxLen == 3        \* longest local file, in bytes
MaxBuf == 2        \* largest FileAccessLength / FileAccessBuffer length
MaxReport == 2     \* largest byte count the device reports for one write
MaxCalls == 2      \* helper calls made in a row by a client of FileAccess
MaxPixels == 1     \* most samples of an image handed to inject_mono8_image
MaxFrames == 3     \* frames the display loop pulls before the model stops it
MaxDelay == 1      \* largest config[DELAY_INTERVAL]
MaxConf == 2       \* confidence levels 0 .. MaxConf (conf and config[CONFIDENCE])

Bytes == 0 .. 1
None == "None"

\* ------------------------------------------------------------ the device
FileOperationStatus == {"Success", "Failure", "Overflow"}
FileSelectors == {"InjectedImage", "InferenceNetwork"}

\* What the device does in one file operation: where (if anywhere) an SDK
\* call raises SpinnakerException, the status the device posts, and the
\* byte count it reports in FileOperationResult.
RaisePoints(op) ==
    IF op = "Open" THEN {"select", "mode", "execute", "status"}
                   ELSE {"select", "execute", "status"}

DeviceOutcomes(op) ==
    [raiseAt : RaisePoints(op), status : FileOperationStatus, count : {0}]
    \cup [raiseAt : {"none"}, status : FileOperationStatus \ {"Success"}, count : {0}]
    \cup [raiseAt : {"none"}, status : {"Success"}, count : 0 .. MaxReport]

\* cam.FileOperationExecute.Execute(): the device posts its status and result.
Execute(c, dev) ==
    [c EXCEPT !.FileOperationStatus = dev.status,
              !.FileOperationResult = dev.count]

\* Body shared by the five helpers: select the operation (and the open
\* mode), execute, read the status; a SpinnakerException anywhere is caught
\* and turned into False.  mode = None for the operations without open mode.
FileOperation_IgnoreStatus(c, op, mode, dev) ==
    IF dev.raiseAt = "select"
    THEN [cam |-> c, ret |-> "False", executed |-> FALSE]
    ELSE LET c1 == [c EXCEPT !.FileOperationSelector = op] IN
    IF dev.raiseAt = "mode"
    THEN [cam |-> c1, ret |-> "False", executed |-> FALSE]
    ELSE LET c2 == IF mode = None THEN c1 ELSE [c1 EXCEPT !.FileOpenMode = mode] IN
    IF dev.raiseAt = "execute"
    THEN [cam |-> c2, ret |-> "False", executed |-> TRUE]
    ELSE LET c3 == Execute(c2, dev) IN
    IF dev.raiseAt = "status"
    THEN [cam |-> c3, ret |-> "False", executed |-> TRUE]
    ELSE [cam |-> c3, ret |-> "True", executed |-> TRUE]

FileOperation(c, op, mode, dev) ==
    IF dev.raiseAt = "select"
    THEN [cam |-> c, ret |-> "False", executed |-> FALSE]
    ELSE LET c1 == [c EXCEPT !.FileOperationSelector = op] IN
    IF dev.raiseAt = "mode"
    THEN [cam |-> c1, ret |-> "False", executed |-> FALSE]
    ELSE LET c2 == IF mode = None THEN c1 ELSE [c1 EXCEPT !.FileOpenMode = mode] IN
    IF dev.raiseAt = "execute"
    THEN [cam |-> c2, ret |-> "False", executed |-> TRUE]
    ELSE LET c3 == Execute(c2, dev) IN
    IF dev.raiseAt = "status"
    THEN [cam |-> c3, ret |-> "False", executed |-> TRUE]
    ELSE IF c3.FileOperationStatus # "Success"
    THEN [cam |-> c3, ret |-> "False", executed |-> TRUE]
    ELSE [cam |-> c3, ret |-> "True", executed |-> TRUE]

open_file_to_write(c, dev) == FileOperation(c, "Open", "Write", dev)
open_file_to_read(c, dev) == FileOperation(c, "Open", "Read", dev)
close_file(c, dev) == FileOperation(c, "Close", None, dev)
execute_delete_command(c, dev) == FileOperation(c, "Delete", None, dev)
execute_write_command(c, dev) == FileOperation(c, "Write", None, dev)

\* Dispatch used by the client of the helpers.
Helper(fn, c, dev) ==
    CASE fn = "open_file_to_write" -> open_file_to_write(c, dev)
      [] fn = "open_file_to_read" -> open_file_to_read(c, dev)
      [] fn = "close_file" -> close_file(c, dev)
      [] fn = "execute_delete_command" -> execute_delete_command(c, dev)
      [] fn = "execute_write_command" -> execute_write_command(c, dev)

HelperOp(fn) ==
    CASE fn = "open_file_to_write" -> "Open"
      [] fn = "open_file_to_read" -> "Open"
      [] fn = "close_file" -> "Close"
      [] fn = "execute_delete_command" -> "Delete"
      [] fn = "execute_write_command" -> "Write"

HelperNames ==
    {"open_file_to_write", "open_file_to_read", "close_file",
     "execute_delete_command", "execute_write_command"}

\* ----------------------------------------------------------------- state
VARIABLES
    pc,        \* position in file_access_upload ("idle" outside it)
    cam,       \* the device registers the code reads and writes
    file_selector,  \* argument of file_access_upload
    file_data, \* bytes of the local file at file_path
    loc,       \* locals of file_access_upload
    exc,       \* exception in flight inside file_access_upload
    result,    \* file_access_upload's result variable / return value
    fault,     \* ghost: the failure the environment injected, "none" if none
    log,       \* ghost: the device commands executed, in order
    call,      \* ghost: the last direct helper call and what the device did
    ncalls,    \* number of direct helper calls made
    cpc,       \* position in configure_/disable_camera_image_injection
    method,    \* which of the two is running
    step,      \* index of the next step of the running method
    args,      \* its arguments: [width, height]
    nodes,     \* the values of the camera's GenICam nodes the methods write
    pending,   \* the value a return statement has handed to the finally clause
    cret,      \* the value the method returned ("Raise": it raised instead)
    cfault,    \* ghost: the first failure the environment injected in the method
    nlog,      \* ghost: the node checks and writes of the method, in order
    ipc,       \* position in inject_mono8_image
    image,     \* its argument input_8_bit_img: [height, width, samples]
    iresult,   \* its local variable result
    mret,      \* the value inject_mono8_image returned
    program,   \* which script's do_camera_stuff runs: DataHandler or food_monitor
    lpc,       \* position in the display loop of do_camera_stuff
    config,    \* the configuration dictionary (the parts the loop reads)
    frame,     \* number of frames pulled by the loop; the current img
    info,      \* cls and conf unpacked from inference_info, if ever bound
    key,       \* lame: the key code cv2.waitKey returned last
    previous_food_status,  \* food_monitor's local
    counter,   \* food_monitor's local
    iter,      \* ghost: POSTs sent and files written in the current iteration
    changes,   \* ghost: the food status changes so far
    qual       \* ghost: frames since the last change that asked for a change

cameraVars == <<cpc, method, step, args, nodes, pending, cret, cfault, nlog>>
injectVars == <<ipc, image, iresult, mret>>
loopVars == <<program, lpc, config, frame, info, key, previous_food_status, counter,
              iter, changes, qual>>
vars == <<pc, cam, file_selector, file_data, loc, exc, result, fault, log, call, ncalls,
          cpc, method, step, args, nodes, pending, cret, cfault, nlog,
          ipc, image, iresult, mret,
          program, lpc, config, frame, info, key, previous_food_status, counter,
          iter, changes, qual>>

\* ----------------------------------------------------- pure computations
\* ceil(n / b) as the code computes it (lines 193-194); b # 0.
WriteIterations_AlwaysRoundUp(n, b) == (n \div b) + 1

WriteIterations(n, b) == (n \div b) + (IF n % b = 0 THEN 0 ELSE 1)

\* sections: index * intermediate_buffer_size for index in range(w), 0 skipped.
Sections_OffByOne(w, b) ==
    LET idx == {i \in 1 .. (w - 1) : i * b # 0} IN
    [k \in 1 .. Cardinality(idx) |-> k * b + 1]

Sections(w, b) ==
    LET idx == {i \in 1 .. (w - 1) : i * b # 0} IN
    [k \in 1 .. Cardinality(idx) |-> k * b]

Min(a, b) == IF a < b THEN a ELSE b

\* data[lo:hi] of Python/numpy (0-based, hi exclusive, clipped to the data).
Slice(data, lo, hi) ==
    LET l == Min(lo, Len(data))
        h == Min(hi, Len(data))
    IN IF h <= l THEN <<>> ELSE SubSeq(data, l + 1, h)

\* np.array_split(data, sections): the pieces between consecutive indices.
ArraySplit(data, sections) ==
    LET n == Len(sections)
        start(k) == IF k = 1 THEN 0 ELSE sections[k - 1]
        stop(k) == IF k = n + 1 THEN Len(data) ELSE sections[k]
    IN [k \in 1 .. (n + 1) |-> Slice(data, start(k), stop(k))]

RECURSIVE Concat(_)
Concat(ss) == IF ss = <<>> THEN <<>> ELSE Head(ss) \o Concat(Tail(ss))

\* ------------------------------------------------------------------ init
Files == UNION {[1 .. n -> Bytes] : n \in 0 .. MaxLen}

NoLocals ==
    [num_bytes |-> 0, intermediate_buffer_size |-> 0, write_iterations |-> 0,
     bytes_left_to_write |-> 0, total_bytes_written |-> 0,
     split_data |-> <<>>, i |-> 0]

NoCall == [fn |-> None, raiseAt |-> "none", status |-> "Success", ret |-> None]

CamInit ==
    [FileSelector : {None},
     FileSize : 0 .. 1,
     FileAccessLength : 0 .. MaxBuf,
     BufferLength : 0 .. MaxBuf,
     FileAccessOffset : 0 .. 1,
     FileAccessBuffer : {<<>>},
     FileOperationSelector : {"Open"},
     FileOpenMode : {"Read"},
     FileOperationStatus : {"Success"},
     FileOperationResult : {0}]

InitCommon ==
    /\ cam \in CamInit
    /\ loc = NoLocals
    /\ exc = None
    /\ result = None
    /\ fault = "none"
    /\ log = <<>>
    /\ call = NoCall
    /\ ncalls = 0

NodeNames ==
    {"TestPatternGeneratorSelector", "TestPattern", "InjectedWidth", "Width",
     "InjectedHeight", "Height"}

NodesInit ==
    [n \in NodeNames |->
        IF n = "TestPatternGeneratorSelector" THEN "Sensor"
        ELSE IF n = "TestPattern" THEN "Off"
        ELSE 0]

NoImage == [height |-> 0, width |-> 0, samples |-> <<>>]

CameraIdle ==
    /\ cpc = "idle"
    /\ method = None
    /\ step = 0
    /\ args = [width |-> 0, height |-> 0]
    /\ nodes = NodesInit
    /\ pending = None
    /\ cret = None
    /\ cfault = "none"
    /\ nlog = <<>>

InjectIdle ==
    /\ ipc = "idle"
    /\ image = NoImage
    /\ iresult = None
    /\ mret = None

NoIteration == [keyRead |-> FALSE, posts |-> <<>>, snaps |-> {}, status |-> FALSE]

\* cls and conf before any inference result was unpacked: not bound.
NoInfo == [bound |-> FALSE, cls |-> 0, conf |-> 0]

NoConfig == [labels |-> {}, inference |-> FALSE, confidence |-> 0, delay |-> 0]

LoopIdle ==
    /\ program = None
    /\ lpc = "idle"
    /\ config = NoConfig
    /\ frame = 0
    /\ info = NoInfo
    /\ key = 0
    /\ previous_food_status = 0
    /\ counter = 0
    /\ iter = NoIteration
    /\ changes = <<>>
    /\ qual = 0


InitUpload ==
    /\ InitCommon
    /\ LoopIdle
    /\ CameraIdle
    /\ InjectIdle
    /\ pc = "start"
    /\ file_selector \in FileSelectors
    /\ file_data \in Files

\* ------------------------------------------------ file_access_upload
Entry(op, ok, c, reported) ==
    [op |-> op, ok |-> ok, len |-> c.FileAccessLength,
     chunk |-> c.FileAccessBuffer, reported |-> reported,
     offset |-> IF op = "Write" THEN c.FileAccessOffset ELSE 0]

\* A device outcome that is not a clean success of the operation.
Failed(dev) == dev.raiseAt # "none" \/ dev.status # "Success"

\* raise X inside the try block: control goes to the except clauses.
Raise(e, f) ==
    /\ exc' = e
    /\ fault' = f
    /\ pc' = "except"

\* What a helper's outcome does to the caller: `if not helper(cam): raise
\* FileAccessError`, or the helper's own exception passing through.
HelperException(ret) == IF ret = "Raise" THEN "SpinnakerException" ELSE "FileAccessError"

\* The except clauses (lines 254-260): the value of result after them, or
\* "Raise" when no clause matches and the exception leaves the function.
ExceptionClasses == {"FileAccessError", "SpinnakerException", "ZeroDivisionError", "OSError"}

Handler_OnlyFileAccessError(e) ==
    IF e = "FileAccessError" THEN "False" ELSE "Raise"

Handler(e) ==
    IF e = "FileAccessError" THEN "False"
    ELSE IF e \in ExceptionClasses THEN "False"
    ELSE "Raise"

\* lines 142-146
Begin ==
    /\ pc = "start"
    /\ result' = "True"
    /\ pc' = "selector"
    /\ UNCHANGED <<cam, file_selector, file_data, loc, exc, fault, log, call, ncalls>>
    /\ UNCHANGED <<cameraVars, injectVars, loopVars>>

\* lines 148-162: the file selector checks and the selection itself.
SelectorOutcomes == {"unsupported", "node", "entry", "raise", "ok"}

CheckFileSelector(o) ==
    /\ pc = "selector"
    /\ CASE o = "unsupported" ->
              Raise("FileAccessError", "selector") /\ UNCHANGED <<cam, log>>
         [] o = "node" ->
              Raise("FileAccessError", "selector") /\ UNCHANGED <<cam, log>>
         [] o = "entry" ->
              Raise("FileAccessError", "entry") /\ UNCHANGED <<cam, log>>
         [] o = "raise" ->
              Raise("SpinnakerException", "sdk") /\ UNCHANGED <<cam, log>>
         [] o = "ok" ->
              /\ cam' = [cam EXCEPT !.FileSelector = file_selector]
              /\ log' = Append(log, Entry("Select", TRUE, cam', 0))
              /\ pc' = "delete"
              /\ UNCHANGED <<exc, fault>>
    /\ UNCHANGED <<file_selector, file_data, loc, result, call, ncalls>>
    /\ UNCHANGED <<cameraVars, injectVars, loopVars>>

\* line 166: a file of size 0 needs no delete.
DeleteNeeded_LargeOnly(file_size) == file_size > 1

DeleteNeeded(file_size) == file_size > 0

\* lines 164-168: delete the file on the camera when it has a size.
DeleteStep(dev) ==
    /\ pc = "delete"
    /\ LET file_size == cam.FileSize IN
       IF DeleteNeeded(file_size)
       THEN LET r == execute_delete_command(cam, dev) IN
            /\ cam' = r.cam
            /\ log' = IF r.executed
                      THEN Append(log, Entry("Delete", r.ret = "True", r.cam, 0))
                      ELSE log
            /\ IF r.ret # "True"
               THEN Raise(HelperException(r.ret), "delete")
               ELSE /\ pc' = "open"
                    /\ fault' = IF Failed(dev) THEN "delete" ELSE fault
                    /\ UNCHANGED exc
       ELSE /\ pc' = "open"
            /\ UNCHANGED <<cam, log, exc, fault>>
    /\ UNCHANGED <<file_selector, file_data, loc, result, call, ncalls>>
    /\ UNCHANGED <<cameraVars, injectVars, loopVars>>

\* lines 170-172
OpenStep(dev) ==
    /\ pc = "open"
    /\ LET r == open_file_to_write(cam, dev) IN
       /\ cam' = r.cam
       /\ log' = IF r.executed
                 THEN Append(log, Entry("Open", r.ret = "True", r.cam, 0))
                 ELSE log
       /\ IF r.ret # "True"
          THEN Raise(HelperException(r.ret), "open")
          ELSE /\ pc' = "length"
               /\ fault' = IF Failed(dev) THEN "open" ELSE fault
               /\ UNCHANGED exc
    /\ UNCHANGED <<file_selector, file_data, loc, result, call, ncalls>>
    /\ UNCHANGED <<cameraVars, injectVars, loopVars>>

\* lines 174-182: raise FileAccessLength to the buffer length, offset to 0.
LengthOutcomes == {"ok", "length", "offset"}

\* line 182: cam.FileAccessOffset.SetValue(0)
SetOffset_Keep(c) == c

SetOffset(c) == [c EXCEPT !.FileAccessOffset = 0]

SetLengthStep(o) ==
    /\ pc = "length"
    /\ LET grow == cam.FileAccessLength < cam.BufferLength
           c1 == IF grow THEN [cam EXCEPT !.FileAccessLength = cam.BufferLength]
                         ELSE cam
       IN
       IF grow /\ o = "length"
       THEN Raise("FileAccessError", "length") /\ UNCHANGED <<cam, log>>
       ELSE IF o = "offset"
       THEN /\ cam' = c1
            /\ Raise("SpinnakerException", "sdk")
            /\ UNCHANGED log
       ELSE /\ cam' = SetOffset(c1)
            /\ log' = Append(log, Entry("SetOffset", TRUE, cam', 0))
            /\ pc' = "read"
            /\ UNCHANGED <<exc, fault>>
    /\ UNCHANGED <<file_selector, file_data, loc, result, call, ncalls>>
    /\ UNCHANGED <<cameraVars, injectVars, loopVars>>

\* lines 184-215: read the local file, count the writes, split the data.
ReadFile(readable) ==
    /\ pc = "read"
    /\ IF ~readable
       THEN Raise("OSError", "read") /\ UNCHANGED loc
       ELSE LET num_bytes == Len(file_data)
                intermediate_buffer_size == cam.FileAccessLength
            IN
            IF intermediate_buffer_size = 0
            THEN Raise("ZeroDivisionError", "zero_length") /\ UNCHANGED loc
            ELSE LET w == WriteIterations(num_bytes, intermediate_buffer_size) IN
                 /\ loc' = [num_bytes |-> num_bytes,
                            intermediate_buffer_size |-> intermediate_buffer_size,
                            write_iterations |-> w,
                            bytes_left_to_write |-> num_bytes,
                            total_bytes_written |-> 0,
                            split_data |-> ArraySplit(file_data,
                                              Sections(w, intermediate_buffer_size)),
                            i |-> 0]
                 /\ pc' = "loop"
                 /\ UNCHANGED <<exc, fault>>
    /\ UNCHANGED <<cam, file_selector, file_data, result, log, call, ncalls>>
    /\ UNCHANGED <<cameraVars, injectVars, loopVars>>


\* What may happen in one loop iteration: the write command's device
\* outcomes, plus an exception from FileAccessBuffer.Set ("buffer"), from
\* FileAccessLength.SetValue ("length") or from reading FileOperationResult
\* ("result").
WriteOutcomes ==
    DeviceOutcomes("Write")
    \cup [raiseAt : {"buffer", "length"}, status : {"Failure"}, count : {0}]
    \cup [raiseAt : {"result"}, status : {"Success"}, count : {0}]

\* lines 227-229: the length of the last, shorter transfer.
TransferLength(intermediate_buffer_size, bytes_left_to_write, current) ==
    IF intermediate_buffer_size > bytes_left_to_write
    THEN bytes_left_to_write
    ELSE current

\* lines 218-241: one iteration of the write loop.
WriteIter(w) ==
    /\ pc = "loop"
    /\ loc.i < loc.write_iterations
    /\ LET tmp_buffer == loc.split_data[loc.i + 1]
           shrink == loc.intermediate_buffer_size > loc.bytes_left_to_write
           c1 == [cam EXCEPT !.FileAccessBuffer = tmp_buffer]
           c2 == [c1 EXCEPT !.FileAccessLength =
                     TransferLength(loc.intermediate_buffer_size,
                                    loc.bytes_left_to_write, @)]
           dev == IF w.raiseAt = "result" THEN [w EXCEPT !.raiseAt = "none"] ELSE w
           r == execute_write_command(c2, dev)
           size_written == r.cam.FileOperationResult
           total == loc.total_bytes_written + size_written
           loaded == Append(log, [Entry("Buffer", TRUE, c1, 0) EXCEPT !.len = 0])
       IN
       IF w.raiseAt = "buffer"
       THEN Raise("SpinnakerException", "sdk") /\ UNCHANGED <<cam, loc, log>>
       ELSE IF w.raiseAt = "length" /\ shrink
       THEN /\ cam' = c1
            /\ log' = loaded
            /\ Raise("SpinnakerException", "length")
            /\ UNCHANGED loc
       ELSE /\ cam' = r.cam
            /\ log' = IF r.executed
                      THEN Append(loaded, Entry("Write", r.ret = "True", c2,
                                                IF r.ret = "True" THEN size_written ELSE 0))
                      ELSE loaded
            /\ IF r.ret # "True"
               THEN Raise(HelperException(r.ret), "write") /\ UNCHANGED loc
               ELSE IF w.raiseAt = "result"
               THEN Raise("SpinnakerException", "sdk") /\ UNCHANGED loc
               ELSE /\ loc' = [loc EXCEPT !.total_bytes_written = total,
                                          !.bytes_left_to_write = loc.num_bytes - total,
                                          !.i = @ + 1]
                    /\ fault' = IF Failed(dev) THEN "write" ELSE fault
                    /\ UNCHANGED <<pc, exc>>
    /\ UNCHANGED <<file_selector, file_data, result, call, ncalls>>
    /\ UNCHANGED <<cameraVars, injectVars, loopVars>>

\* lines 251-252, after the loop has run all its iterations.
CloseStep(dev) ==
    /\ pc = "loop"
    /\ loc.i >= loc.write_iterations
    /\ LET r == close_file(cam, dev) IN
       /\ cam' = r.cam
       /\ log' = IF r.executed
                 THEN Append(log, Entry("Close", r.ret = "True", r.cam, 0))
                 ELSE log
       /\ IF r.ret # "True"
          THEN Raise(HelperException(r.ret), "close")
          ELSE /\ pc' = "return"
               /\ fault' = IF Failed(dev) THEN "close" ELSE fault
               /\ UNCHANGED exc
    /\ UNCHANGED <<file_selector, file_data, loc, result, call, ncalls>>
    /\ UNCHANGED <<cameraVars, injectVars, loopVars>>

\* lines 254-260
ExceptClause ==
    /\ pc = "except"
    /\ result' = Handler(exc)
    /\ exc' = None
    /\ pc' = "return"
    /\ UNCHANGED <<cam, file_selector, file_data, loc, fault, log, call, ncalls>>
    /\ UNCHANGED <<cameraVars, injectVars, loopVars>>

\* line 265
Return ==
    /\ pc = "return"
    /\ pc' = "done"
    /\ UNCHANGED <<cam, file_selector, file_data, loc, exc, result, fault, log, call, ncalls>>
    /\ UNCHANGED <<cameraVars, injectVars, loopVars>>

NextUpload ==
    \/ Begin
    \/ \E o \in SelectorOutcomes : CheckFileSelector(o)
    \/ \E dev \in DeviceOutcomes("Delete") : DeleteStep(dev)
    \/ \E dev \in DeviceOutcomes("Open") : OpenStep(dev)
    \/ \E o \in LengthOutcomes : SetLengthStep(o)
    \/ \E readable \in BOOLEAN : ReadFile(readable)
    \/ \E w \in WriteOutcomes : WriteIter(w)
    \/ \E dev \in DeviceOutcomes("Close") : CloseStep(dev)
    \/ ExceptClause
    \/ Return

SpecUpload == InitUpload /\ [][NextUpload]_vars

\* -------------------------------------------- direct calls of the helpers
InitHelpers ==
    /\ InitCommon
    /\ LoopIdle
    /\ CameraIdle
    /\ InjectIdle
    /\ pc = "idle"
    /\ file_selector = None
    /\ file_data = <<>>

CallHelper(fn, dev) ==
    /\ pc = "idle"
    /\ ncalls < MaxCalls
    /\ LET r == Helper(fn, cam, dev) IN
       /\ cam' = r.cam
       /\ call' = [fn |-> fn, raiseAt |-> dev.raiseAt, status |-> dev.status, ret |-> r.ret]
    /\ ncalls' = ncalls + 1
    /\ UNCHANGED <<pc, file_selector, file_data, loc, exc, result, fault, log>>
    /\ UNCHANGED <<cameraVars, injectVars, loopVars>>

NextHelpers ==
    \E fn \in HelperNames : \E dev \in DeviceOutcomes(HelperOp(fn)) : CallHelper(fn, dev)

SpecHelpers == InitHelpers /\ [][NextHelpers]_vars


\* ------------------------------------------- properties of FileAccess
Writes == SelectSeq(log, LAMBDA e : e.op = "Write")
Buffers == SelectSeq(log, LAMBDA e : e.op = "Buffer")

RECURSIVE SumReported(_)
SumReported(es) == IF es = <<>> THEN 0 ELSE Head(es).reported + SumReported(Tail(es))

RECURSIVE Chunks(_)
Chunks(es) == IF es = <<>> THEN <<>> ELSE <<Head(es).chunk>> \o Chunks(Tail(es))

\* The least k with k * b >= n, for n >= 0 and b > 0.
Ceil(n, b) == CHOOSE k \in 0 .. n : k * b >= n /\ (k = 0 \/ (k - 1) * b < n)

\* The locals of the upload have been computed (ReadFile has run).
Split == pc \in {"loop", "except", "return", "done"} /\ loc.intermediate_buffer_size > 0

Before(a, b) ==
    \A i \in 1 .. Len(log) : log[i].op = b => \E j \in 1 .. (i - 1) : log[j].op = a

\* C1: a True result of file_access_upload implies that the byte counts the
\* device reported for the write commands add up to the size of the file.
C1_TrueImpliesWholeFileWritten ==
    (pc = "done" /\ result = "True") => SumReported(Writes) = Len(file_data)

\* C2: file_access_upload never lets an exception out; whenever one of the
\* failures was injected (selector, entry, delete, open, write, close,
\* FileAccessLength, zero transfer length, unreadable file, or any other SDK
\* exception) it returns False, so True is returned only without a failure.
C2_NoExceptionEscapes ==
    pc = "done" =>
        /\ result \in {"True", "False"}
        /\ fault # "none" => result = "False"

C2_Witness == pc = "done" /\ fault = "zero_length" /\ result = "False"

\* C3: with N bytes and transfer length B > 0 the loop executes at most
\* ceil(N/B) write commands (none when N = 0), exactly ceil(N/B) when the
\* upload returns True, and no write command follows a failed one.
C3_WritesBounded ==
    /\ ~Split => Len(Writes) = 0
    /\ Split =>
         LET N == Len(file_data)
             B == loc.intermediate_buffer_size
         IN /\ Len(Writes) <= Ceil(N, B)
            /\ N = 0 => Len(Writes) = 0
            /\ (pc = "done" /\ result = "True") => Len(Writes) = Ceil(N, B)
    /\ \A k \in 1 .. (Len(Writes) - 1) : Writes[k].ok

C3_Witness ==
    /\ pc = "done" /\ result = "True"
    /\ Len(file_data) = 3 /\ loc.intermediate_buffer_size = 2
    /\ Len(Writes) = 2

\* C4: the chunks loaded into FileAccessBuffer, in iteration order, are the
\* consecutive B-byte pieces of the file: every chunk but the last has B
\* bytes, the last has N - (ceil(N/B) - 1) * B bytes (between 1 and B), and
\* all of them concatenated are exactly the file's bytes.
C4_EqualChunksExceptLast ==
    (Split /\ Len(file_data) > 0) =>
        LET N == Len(file_data)
            B == loc.intermediate_buffer_size
            w == Ceil(N, B)
            last == N - (w - 1) * B
            cs == Chunks(Buffers)
        IN /\ Len(cs) <= w
           /\ \A k \in 1 .. Len(cs) :
                 /\ k < w => Len(cs[k]) = B
                 /\ k = w => (Len(cs[k]) = last /\ 1 <= last /\ last <= B)
           /\ Concat(cs) = SubSeq(file_data, 1, Len(Concat(cs)))
           /\ Len(cs) = w => Concat(cs) = file_data

C4_Witness ==
    /\ Len(file_data) = 3 /\ Split /\ loc.intermediate_buffer_size = 2
    /\ Len(Buffers) = 2 /\ Len(Buffers[2].chunk) = 1

\* C5: at every write command FileAccessLength does not exceed the number
\* of bytes of the chunk loaded into FileAccessBuffer for that write.
C5_LengthWithinChunk ==
    \A k \in 1 .. Len(Writes) : Writes[k].len <= Len(Writes[k].chunk)

\* C6: when the camera file has FileSize > 0, Delete is executed before
\* Open-for-write, and a failed Delete makes the upload return False
\* without executing Open or any Write.
C6_DeleteBeforeOpen ==
    cam.FileSize > 0 =>
        /\ Before("Delete", "Open")
        /\ \A i \in 1 .. Len(log) : (log[i].op = "Delete" /\ ~log[i].ok) => i = Len(log)
        /\ fault = "delete" =>
             /\ \A i \in 1 .. Len(log) : log[i].op \notin {"Open", "Write"}
             /\ pc = "done" => result = "False"

C6_Witness ==
    /\ cam.FileSize > 0
    /\ \E i \in 1 .. Len(log) : log[i].op = "Delete" /\ log[i].ok
    /\ \E i \in 1 .. Len(log) : log[i].op = "Open"

\* C15: file_access_upload follows the file protocol in order: the file
\* selector is set before any command, a Write is executed only after an
\* Open-for-write that succeeded, FileAccessOffset was set to 0 before the
\* first Write (and is 0 at it), and Close is executed only after every
\* Write of the loop was executed and succeeded.
Position(op) == {i \in 1 .. Len(log) : log[i].op = op}

C15_ProtocolOrder ==
    /\ log # <<>> => (log[1].op = "Select" /\ cam.FileSelector = file_selector)
    /\ \A i \in Position("Write") :
          /\ \E j \in Position("Open") : j < i /\ log[j].ok
          /\ \E j \in Position("SetOffset") : j < i
    /\ Writes # <<>> => Writes[1].offset = 0
    /\ \A i \in Position("Close") :
          /\ i = Len(log)
          /\ Len(Writes) = loc.write_iterations
          /\ \A k \in 1 .. Len(Writes) : Writes[k].ok

C15_Witness ==
    /\ pc = "done" /\ result = "True"
    /\ Len(Writes) = 2
    /\ log[Len(log)].op = "Close" /\ log[Len(log)].ok
    /\ Position("Delete") # {}

\* C10: a file-operation helper returns True exactly when no SDK call raised
\* SpinnakerException and FileOperationStatus then reads Success; otherwise
\* it returns False, and it never raises.
C10_HelperResult ==
    call.fn # None =>
        /\ call.ret \in {"True", "False"}
        /\ call.ret = "True" <=>
             (call.raiseAt = "none" /\ cam.FileOperationStatus = "Success")

C10_Witness ==
    /\ call.fn = "open_file_to_read"
    /\ call.raiseAt = "status"
    /\ cam.FileOperationStatus = "Success"
    /\ call.ret = "False"


\* ------------------------------------------------------- class Camera
\* configure_camera_for_image_injection and disable_camera_image_injection
\* are straight sequences of "check a node", "check an enumeration entry"
\* and "write a node" statements inside one try block.
SensorWidth == 1440
SensorHeight == 1080

CheckNode(n) == [kind |-> "node", node |-> n, val |-> None]
CheckEntry(n, e) == [kind |-> "entry", node |-> n, val |-> e]
WriteNode(n, v) == [kind |-> "write", node |-> n, val |-> v]

\* lines 430-487
ConfigureSteps_WriteFirst(a) ==
    << CheckNode("TestPatternGeneratorSelector"),
       CheckEntry("TestPatternGeneratorSelector", "PipelineStart"),
       WriteNode("TestPatternGeneratorSelector", "PipelineStart"),
       CheckNode("TestPattern"),
       CheckEntry("TestPattern", "InjectedImage"),
       WriteNode("TestPattern", "InjectedImage"),
       CheckNode("InjectedWidth"),
       WriteNode("InjectedWidth", a.width),
       WriteNode("Width", a.width),
       CheckNode("Width"),
       CheckNode("InjectedHeight"),
       WriteNode("InjectedHeight", a.height),
       CheckNode("Height"),
       WriteNode("Height", a.height) >>

ConfigureSteps(a) ==
    << CheckNode("TestPatternGeneratorSelector"),
       CheckEntry("TestPatternGeneratorSelector", "PipelineStart"),
       WriteNode("TestPatternGeneratorSelector", "PipelineStart"),
       CheckNode("TestPattern"),
       CheckEntry("TestPattern", "InjectedImage"),
       WriteNode("TestPattern", "InjectedImage"),
       CheckNode("InjectedWidth"),
       WriteNode("InjectedWidth", a.width),
       CheckNode("Width"),
       WriteNode("Width", a.width),
       CheckNode("InjectedHeight"),
       WriteNode("InjectedHeight", a.height),
       CheckNode("Height"),
       WriteNode("Height", a.height) >>

\* lines 339-392; Width and Height are set to the node's GetMax().
DisableSteps ==
    << [kind |-> "init", node |-> None, val |-> None],
       CheckNode("TestPatternGeneratorSelector"),
       CheckEntry("TestPatternGeneratorSelector", "PipelineStart"),
       WriteNode("TestPatternGeneratorSelector", "PipelineStart"),
       CheckNode("TestPattern"),
       CheckEntry("TestPattern", "Off"),
       WriteNode("TestPattern", "Off"),
       CheckNode("Width"),
       WriteNode("Width", SensorWidth),
       CheckNode("Height"),
       WriteNode("Height", SensorHeight) >>

Steps == IF method = "disable" THEN DisableSteps ELSE ConfigureSteps(args)

Widths == {1, SensorWidth}
Heights == {1, SensorHeight}

\* A call of configure_camera_for_image_injection(width, height).
EnterConfigure(w, h) ==
    /\ method' = "configure"
    /\ args' = [width |-> w, height |-> h]
    /\ step' = 1
    /\ cpc' = "steps"
    /\ pending' = None
    /\ cret' = None
    /\ cfault' = "none"
    /\ nlog' = <<>>
    /\ UNCHANGED nodes

CallConfigure(w, h) ==
    /\ cpc = "idle" /\ ipc = "idle"
    /\ EnterConfigure(w, h)
    /\ UNCHANGED <<pc, cam, file_selector, file_data, loc, exc, result, fault, log, call, ncalls>>
    /\ UNCHANGED <<injectVars, loopVars>>

CallDisable ==
    /\ cpc = "idle" /\ ipc = "idle"
    /\ method' = "disable"
    /\ step' = 1
    /\ cpc' = "steps"
    /\ UNCHANGED <<args, nodes, pending, cret, cfault, nlog>>
    /\ UNCHANGED <<pc, cam, file_selector, file_data, loc, exc, result, fault, log, call, ncalls>>
    /\ UNCHANGED <<injectVars, loopVars>>

\* `return v` inside the try block, or `except Exception: return False`:
\* the value waits while the finally clause runs.
ReturnFromTry(v, f) ==
    /\ pending' = v
    /\ cfault' = f
    /\ cpc' = "finally"
    /\ UNCHANGED step

\* self.camera.Init() (line 339)
InitStep(o) ==
    /\ cpc = "steps" /\ step <= Len(Steps) /\ Steps[step].kind = "init"
    /\ IF o = "raise"
       THEN ReturnFromTry("False", "Init")
       ELSE /\ step' = step + 1
            /\ UNCHANGED <<cpc, pending, cfault>>
    /\ UNCHANGED <<method, args, nodes, cret, nlog>>
    /\ UNCHANGED <<pc, cam, file_selector, file_data, loc, exc, result, fault, log, call, ncalls>>
    /\ UNCHANGED <<injectVars, loopVars>>

\* if not IsAvailable(node) or not IsWritable(node): return False
\* (IsReadable for an enumeration entry).
CheckStep(o) ==
    /\ cpc = "steps" /\ step <= Len(Steps) /\ Steps[step].kind \in {"node", "entry"}
    /\ LET st == Steps[step]
           name == IF st.kind = "node" THEN st.node ELSE st.val
       IN CASE o = "pass" ->
                 /\ step' = step + 1
                 /\ nlog' = Append(nlog, [st EXCEPT !.kind = "check"])
                 /\ UNCHANGED <<cpc, pending, cfault>>
            [] o = "fail" ->
                 /\ ReturnFromTry("False", name)
                 /\ UNCHANGED nlog
            [] o = "raise" ->
                 /\ ReturnFromTry("False", name)
                 /\ UNCHANGED nlog
    /\ UNCHANGED <<method, args, nodes, cret>>
    /\ UNCHANGED <<pc, cam, file_selector, file_data, loc, exc, result, fault, log, call, ncalls>>
    /\ UNCHANGED <<injectVars, loopVars>>

\* node.SetIntValue(v) / node.SetValue(v)
WriteStep(o) ==
    /\ cpc = "steps" /\ step <= Len(Steps) /\ Steps[step].kind = "write"
    /\ LET st == Steps[step] IN
       IF o = "raise"
       THEN /\ ReturnFromTry("False", "SetValue")
            /\ UNCHANGED <<nodes, nlog>>
       ELSE /\ nodes' = [nodes EXCEPT ![st.node] = st.val]
            /\ nlog' = Append(nlog, st)
            /\ step' = step + 1
            /\ UNCHANGED <<cpc, pending, cfault>>
    /\ UNCHANGED <<method, args, cret>>
    /\ UNCHANGED <<pc, cam, file_selector, file_data, loc, exc, result, fault, log, call, ncalls>>
    /\ UNCHANGED <<injectVars, loopVars>>

\* The try block ran to its end: no return statement was executed, so the
\* function's value so far is Python's implicit None.
EndOfTry ==
    /\ cpc = "steps" /\ step > Len(Steps)
    /\ pending' = None
    /\ cpc' = "finally"
    /\ UNCHANGED <<method, step, args, nodes, cret, cfault, nlog>>
    /\ UNCHANGED <<pc, cam, file_selector, file_data, loc, exc, result, fault, log, call, ncalls>>
    /\ UNCHANGED <<injectVars, loopVars>>

\* The finally clauses.  disable (lines 397-399): DeInit(), then `return
\* True`, which replaces whatever the try block or the except clause was
\* returning.  configure (lines 491-493): pass.
FinallyClause(m, pend, o) ==
    IF m = "disable"
    THEN IF o = "raise" THEN "Raise" ELSE "True"
    ELSE pend

Finally(o) ==
    /\ cpc = "finally"
    /\ cret' = FinallyClause(method, pending, o)
    /\ cpc' = "done"
    /\ UNCHANGED <<method, step, args, nodes, pending, cfault, nlog>>
    /\ UNCHANGED <<pc, cam, file_selector, file_data, loc, exc, result, fault, log, call, ncalls>>
    /\ UNCHANGED <<injectVars, loopVars>>

CamReset ==
    [FileSelector |-> None, FileSize |-> 0, FileAccessLength |-> 0, BufferLength |-> 0,
     FileAccessOffset |-> 0, FileAccessBuffer |-> <<>>, FileOperationSelector |-> "Open",
     FileOpenMode |-> "Read", FileOperationStatus |-> "Success", FileOperationResult |-> 0]

InitCamera ==
    /\ InitCommon
    /\ LoopIdle
    /\ cam = CamReset
    /\ CameraIdle
    /\ InjectIdle
    /\ pc = "idle"
    /\ file_selector = None
    /\ file_data = <<>>

CheckOutcomes == {"pass", "fail", "raise"}
CallOutcomes == {"ok", "raise"}

NextCamera ==
    \/ \E w \in Widths, h \in Heights : CallConfigure(w, h)
    \/ CallDisable
    \/ \E o \in CallOutcomes : InitStep(o)
    \/ \E o \in CheckOutcomes : CheckStep(o)
    \/ \E o \in CallOutcomes : WriteStep(o)
    \/ EndOfTry
    \/ \E o \in CallOutcomes : Finally(o)

SpecCamera == InitCamera /\ [][NextCamera]_vars

\* ------------------------------------------- properties of the two methods
\* C7: disable_camera_image_injection returns False whenever one of its
\* node or entry checks fails or an SDK call raises.
C7_DisableReturnsFalseOnFailure ==
    (method = "disable" /\ cpc = "done" /\ cfault # "none") => cret = "False"

\* C8: configure_camera_for_image_injection returns True when every check
\* passes and every write completes without an exception.
C8_ConfigureReturnsTrueOnSuccess ==
    (method = "configure" /\ cpc = "done" /\ cfault = "none") => cret = "True"

\* C16: configure_camera_for_image_injection and
\* disable_camera_image_injection write a node only after that node passed
\* its availability and writability check; once a check has failed (or an
\* SDK call has raised) no node is written any more in the call, and the
\* nodes written before keep the values written.
NodeWrites(n) == {i \in 1 .. Len(nlog) : nlog[i].kind = "write" /\ nlog[i].node = n}

LastWrite(n) == CHOOSE i \in NodeWrites(n) : \A j \in NodeWrites(n) : j <= i

C16_WriteAfterOwnCheck ==
    /\ [](\A n \in NodeNames :
            /\ \A i \in NodeWrites(n) :
                  \E j \in 1 .. (i - 1) :
                      nlog[j] = [kind |-> "check", node |-> n, val |-> None]
            /\ nodes[n] = IF NodeWrites(n) = {} THEN NodesInit[n]
                          ELSE nlog[LastWrite(n)].val)
    /\ [][cfault # "none" => (nodes' = nodes /\ nlog' = nlog)]_vars

C16_Witness ==
    /\ method = "configure" /\ cpc = "done" /\ cfault = "Width"
    /\ nodes["InjectedWidth"] = 1 /\ nodes["TestPattern"] = "InjectedImage"
    /\ nodes["Width"] = 0

\* ------------------------------------------------- inject_mono8_image
Samples == {0, 1, 255}

Images ==
    UNION {[height : {h}, width : {w}, samples : [1 .. (h * w) -> Samples]] :
             <<h, w>> \in {hw \in (1 .. MaxPixels) \X (1 .. MaxPixels) :
                              hw[1] * hw[2] <= MaxPixels}}

\* lines 530-531: astype('uint16'), then << 2 in the 16-bit container.
Shift2_In8Bit(v) == (v * 4) % 256

Shift2(v) == (v * 4) % 65536

\* ndarray.tofile of uint16 samples: two bytes each, low byte first.
RECURSIVE ToFile(_)
ToFile(xs) ==
    IF xs = <<>> THEN <<>>
    ELSE <<Head(xs) % 256, Head(xs) \div 256>> \o ToFile(Tail(xs))

convert_raw_image_8bit_to_10bit(input_np_arr_data) ==
    [output_file |-> ToFile([k \in 1 .. Len(input_np_arr_data) |->
                                Shift2(input_np_arr_data[k])]),
     ret |-> "True"]

InitInject ==
    /\ InitCommon
    /\ LoopIdle
    /\ CameraIdle
    /\ pc = "idle"
    /\ file_selector = None
    /\ file_data = <<>>
    /\ ipc = "convert"
    /\ image \in Images
    /\ iresult = None
    /\ mret = None

\* lines 610-614: write the 10-bit image to input_10_bit_path.
ConvertStep ==
    /\ ipc = "convert"
    /\ LET r == convert_raw_image_8bit_to_10bit(image.samples) IN
       /\ iresult' = r.ret
       /\ IF r.ret # "True"
          THEN /\ mret' = "False"
               /\ ipc' = "done"
               /\ UNCHANGED file_data
          ELSE /\ file_data' = r.output_file
               /\ ipc' = "inject"
               /\ UNCHANGED mret
    /\ UNCHANGED <<pc, cam, file_selector, loc, exc, result, fault, log, call, ncalls>>
    /\ UNCHANGED <<cameraVars, image, loopVars>>

\* lines 616 and 546: inject_10bit_image enters file_access_upload with the
\* selector 'InjectedImage' and the file just written.
inject_10bit_image ==
    /\ ipc = "inject"
    /\ pc = "idle"
    /\ file_selector' = "InjectedImage"
    /\ pc' = "start"
    /\ ipc' = "upload"
    /\ UNCHANGED <<cam, file_data, loc, exc, result, fault, log, call, ncalls>>
    /\ UNCHANGED <<cameraVars, image, iresult, mret, loopVars>>

\* lines 616-624: the upload has returned; its value goes into result, the
\* temporary file is removed, and the camera is configured for the image's
\* shape.  An exception leaving the upload leaves inject_mono8_image too.
AfterInject ==
    /\ ipc = "upload"
    /\ pc = "done"
    /\ iresult' = result
    /\ IF result = "Raise"
       THEN /\ mret' = "Raise"
            /\ ipc' = "done"
            /\ UNCHANGED <<file_data, cameraVars>>
       ELSE /\ file_data' = <<>>
            /\ cpc = "idle"
            /\ EnterConfigure(image.width, image.height)
            /\ ipc' = "configure"
            /\ UNCHANGED mret
    /\ UNCHANGED <<pc, cam, file_selector, loc, exc, result, fault, log, call, ncalls>>
    /\ UNCHANGED <<image, loopVars>>

\* lines 624-626: result = configure_camera_for_image_injection(...);
\* return result.
InjectReturn ==
    /\ ipc = "configure"
    /\ cpc = "done"
    /\ iresult' = cret
    /\ mret' = cret
    /\ ipc' = "done"
    /\ UNCHANGED <<pc, cam, file_selector, file_data, loc, exc, result, fault, log, call, ncalls>>
    /\ UNCHANGED <<cameraVars, image, loopVars>>

NextInject ==
    \/ ConvertStep
    \/ inject_10bit_image
    \/ Begin
    \/ \E o \in SelectorOutcomes : CheckFileSelector(o)
    \/ \E dev \in DeviceOutcomes("Delete") : DeleteStep(dev)
    \/ \E dev \in DeviceOutcomes("Open") : OpenStep(dev)
    \/ \E o \in LengthOutcomes : SetLengthStep(o)
    \/ \E readable \in BOOLEAN : ReadFile(readable)
    \/ \E w \in WriteOutcomes : WriteIter(w)
    \/ \E dev \in DeviceOutcomes("Close") : CloseStep(dev)
    \/ ExceptClause
    \/ Return
    \/ AfterInject
    \/ \E o \in CheckOutcomes : CheckStep(o)
    \/ \E o \in CallOutcomes : WriteStep(o)
    \/ EndOfTry
    \/ \E o \in CallOutcomes : Finally(o)
    \/ InjectReturn

SpecInject == InitInject /\ [][NextInject]_vars

\* convert_raw_image_8bit_to_10bit on its own: every 8-bit sample value in
\* arrays of up to MaxPixels samples, and the boundary values in longer ones.
Uint8 == 0 .. 255

ConvertInputs ==
    UNION {[height : {1}, width : {n}, samples : [1 .. n -> Uint8]] :
             n \in 1 .. MaxPixels}
    \cup UNION {[height : {1}, width : {n}, samples : [1 .. n -> Samples]] :
             n \in 1 .. (MaxPixels + 2)}

InitConvert ==
    /\ InitCommon
    /\ cam = CamReset
    /\ LoopIdle
    /\ CameraIdle
    /\ pc = "idle"
    /\ file_selector = None
    /\ file_data = <<>>
    /\ ipc = "convert"
    /\ image \in ConvertInputs
    /\ iresult = None
    /\ mret = None

NextConvert == ConvertStep

SpecConvert == InitConvert /\ [][NextConvert]_vars

\* The uint16 samples a file of little-endian byte pairs holds.
FromFile(bytes) ==
    [k \in 1 .. (Len(bytes) \div 2) |-> bytes[2 * k - 1] + 256 * bytes[2 * k]]

\* C17: convert_raw_image_8bit_to_10bit writes, for every 8-bit sample v of
\* the input, the 16-bit sample 4 * v at the same position: every output
\* sample is at most 1020 and below 2^10, and the output has as many
\* samples as the input.
C17_ConvertIsTimesFour ==
    ipc = "inject" =>
        LET out == FromFile(file_data) IN
        /\ Len(file_data) = 2 * Len(image.samples)
        /\ Len(out) = Len(image.samples)
        /\ \A k \in 1 .. Len(out) :
              /\ out[k] = 4 * image.samples[k]
              /\ out[k] <= 1020
              /\ out[k] < 1024

C17_Witness ==
    /\ ipc = "inject" /\ iresult = "True"
    /\ image.samples = <<255, 1>>
    /\ file_data = <<252, 3, 4, 0>>

\* C9: whenever the upload of the converted image (inject_10bit_image)
\* fails, inject_mono8_image returns False, whatever the configuration step
\* returns.
C9_InjectFailureReturnsFalse ==
    (ipc = "done" /\ result = "False") => mret = "False"


\* ------------------------------------- the display loop of do_camera_stuff
\* DataHandler.py lines 97-172 and food_monitor.py lines 105-162.  One
\* iteration: pull a frame, (food_monitor) filter the class, show the frame,
\* read a key, branch on it.
Esc == 27
F1 == 190
F2 == 191
NoKey == -1
InitialFoodStatus == 10

Programs == {"DataHandler", "food_monitor"}
Classes == 0 .. 1

\* The keys of configuration[LABELS] are one-character strings; x1b is the
\* escape character and xbf the character with code 191.
LabelChars == {"1", "x1b", "xbf"}

\* Python's ord() on them.
Ord(ch) ==
    CASE ch = "1" -> 49
      [] ch = "x1b" -> 27
      [] ch = "xbf" -> 191

\* What cv2.waitKey(1) may return.
Keys == {NoKey, Esc, F1, F2, 49, 50}

Configs ==
    [labels : SUBSET LabelChars, inference : BOOLEAN,
     confidence : 0 .. MaxConf, delay : 0 .. MaxDelay]

InitLoop ==
    /\ InitCommon
    /\ cam = CamReset
    /\ CameraIdle
    /\ InjectIdle
    /\ pc = "idle"
    /\ file_selector = None
    /\ file_data = <<>>
    /\ program \in Programs
    /\ config \in Configs
    /\ program = "DataHandler" => (config.confidence = 0 /\ config.delay = 0)
    /\ lpc = "pull"
    /\ frame = 0
    /\ info = NoInfo
    /\ key = NoKey
    /\ previous_food_status = InitialFoodStatus
    /\ counter = 0
    /\ iter = NoIteration
    /\ changes = <<>>
    /\ qual = 0

\* DataHandler 99-105 / food_monitor 107-113: the next frame, with its
\* inference result when enable_camera_inference is on.  An exception of
\* the camera is not caught and leaves do_camera_stuff.
PullFrame(raises, cls, conf) ==
    /\ lpc = "pull"
    /\ frame < MaxFrames
    /\ iter' = NoIteration
    /\ IF raises
       THEN /\ lpc' = "crashed"
            /\ UNCHANGED <<frame, info>>
       ELSE /\ frame' = frame + 1
            /\ info' = IF config.inference
                       THEN [bound |-> TRUE, cls |-> cls, conf |-> conf]
                       ELSE info
            /\ lpc' = IF program = "food_monitor" THEN "filter" ELSE "key"
    /\ UNCHANGED <<program, config, key, previous_food_status, counter, changes, qual>>
    /\ UNCHANGED <<pc, cam, file_selector, file_data, loc, exc, result, fault, log, call, ncalls>>
    /\ UNCHANGED <<cameraVars, injectVars>>

\* food_monitor 130-131: the basic filter function.
FilterCount(cls, prev, conf, confidence, cnt) ==
    IF cls # prev /\ conf > confidence THEN cnt + 1 ELSE cnt

\* food_monitor 134: change food status.
ChangeStatus_NoDelay(cls, prev, conf, confidence, cnt, delay) ==
    cls # prev /\ conf > confidence

ChangeStatus(cls, prev, conf, confidence, cnt, delay) ==
    cls # prev /\ conf > confidence /\ cnt > delay

\* food_monitor 129-141.  Without camera inference cls and conf were never
\* assigned, and line 130 raises NameError.
FilterStep ==
    /\ lpc = "filter"
    /\ IF ~info.bound
       THEN /\ lpc' = "crashed"
            /\ UNCHANGED <<previous_food_status, counter, iter, changes, qual>>
       ELSE LET cls == info.cls
                conf == info.conf
                cnt == FilterCount(cls, previous_food_status, conf,
                                   config.confidence, counter)
                asked == cls # previous_food_status /\ conf > config.confidence
                q == IF asked THEN qual + 1 ELSE qual
            IN
            IF ChangeStatus(cls, previous_food_status, conf, config.confidence,
                            cnt, config.delay)
            THEN /\ previous_food_status' = cls
                 /\ iter' = [iter EXCEPT !.status = TRUE]
                 /\ counter' = 0
                 /\ changes' = Append(changes,
                        [frame |-> frame, cls |-> cls, prev |-> previous_food_status,
                         conf |-> conf, asked |-> asked, qual |-> q])
                 /\ qual' = 0
                 /\ lpc' = "key"
            ELSE /\ counter' = cnt
                 /\ qual' = q
                 /\ lpc' = "key"
                 /\ UNCHANGED <<previous_food_status, iter, changes>>
    /\ UNCHANGED <<program, config, frame, info, key>>
    /\ UNCHANGED <<pc, cam, file_selector, file_data, loc, exc, result, fault, log, call, ncalls>>
    /\ UNCHANGED <<cameraVars, injectVars>>

\* The if / elif chain on lame (DataHandler 134-162, food_monitor 148-152).
KeyBranch_AnyKeyExits(prog, k) ==
    IF k # NoKey THEN "break" ELSE "continue"

KeyBranch(prog, k) ==
    IF k = Esc THEN "break"
    ELSE IF prog = "DataHandler" /\ (k = F1 \/ k = F2) THEN "post"
    ELSE IF k = NoKey THEN "continue"
    ELSE "labels"

\* DataHandler 144-152: data1.
PostBody_NoElse(k) == IF k = F1 THEN "ON" ELSE "na"

PostBody(k) == IF k = F1 THEN "ON" ELSE "OFF"

\* DataHandler 163-167 / food_monitor 153-157: the folders the frame is
\* written to.
Snapshots_NoTest(labels, k) == labels

Snapshots(labels, k) == {a_val \in labels : k = Ord(a_val)}

\* DataHandler 127-167 / food_monitor 145-157: cv2.waitKey and the branch.
\* requests.post may raise (the endpoint is remote); nothing catches it.
KeyStep(k, postRaises) ==
    /\ lpc = "key"
    /\ key' = k
    /\ LET b == KeyBranch(program, k) IN
       CASE b = "break" ->
              /\ lpc' = "exited"
              /\ iter' = [iter EXCEPT !.keyRead = TRUE]
         [] b = "post" ->
              /\ iter' = [iter EXCEPT !.keyRead = TRUE,
                                      !.posts = Append(@, PostBody(k))]
              /\ lpc' = IF postRaises THEN "crashed" ELSE "pull"
         [] b = "continue" ->
              /\ lpc' = "pull"
              /\ iter' = [iter EXCEPT !.keyRead = TRUE]
         [] b = "labels" ->
              /\ iter' = [iter EXCEPT !.keyRead = TRUE,
                                      !.snaps = Snapshots(config.labels, k)]
              /\ lpc' = "pull"
    /\ UNCHANGED <<program, config, frame, info, previous_food_status, counter, changes, qual>>
    /\ UNCHANGED <<pc, cam, file_selector, file_data, loc, exc, result, fault, log, call, ncalls>>
    /\ UNCHANGED <<cameraVars, injectVars>>

NextLoop ==
    \/ \E raises \in BOOLEAN, cls \in Classes, conf \in 0 .. MaxConf :
          PullFrame(raises, cls, conf)
    \/ FilterStep
    \/ \E k \in Keys, postRaises \in BOOLEAN : KeyStep(k, postRaises)

SpecLoop == InitLoop /\ [][NextLoop]_vars


\* ------------------------------------------ properties of the display loop
\* C11: Esc is the exit.  The loop is left by its break in the iteration
\* that reads key code 27 and in no iteration that reads another key code
\* (an uncaught exception is not an exit by key); the Esc iteration sends
\* no POST and writes no snapshot, and once Esc has been read no frame is
\* pulled, no file written and no POST sent.
C11_EscIsTheExit ==
    /\ [](/\ lpc = "exited" <=> (iter.keyRead /\ key = Esc)
          /\ (iter.keyRead /\ key = Esc) => (iter.posts = <<>> /\ iter.snaps = {}))
    /\ [][(iter.keyRead /\ key = Esc) =>
             (frame' = frame /\ iter' = iter /\ changes' = changes)]_vars

C11_Witness ==
    /\ lpc = "exited" /\ frame = 2 /\ key = Esc
    /\ "x1b" \in config.labels

\* C12: in DataHandler an iteration sends a POST exactly when its key code
\* is 190 (F1) or 191 (F2): one POST, body ON for 190 and OFF for 191,
\* never na, and no image file is saved in that iteration.
C12_PostOnF1F2 ==
    (program = "DataHandler" /\ iter.keyRead) =>
        /\ iter.posts # <<>> <=> key \in {F1, F2}
        /\ key = F1 => iter.posts = <<"ON">>
        /\ key = F2 => iter.posts = <<"OFF">>
        /\ iter.posts # <<>> => (iter.snaps = {} /\ ~iter.status)

C12_Witness ==
    /\ program = "DataHandler" /\ iter.keyRead /\ key = F2
    /\ iter.posts = <<"OFF">> /\ "xbf" \in config.labels

\* C13 as stated: the frame is written into configuration[FOLDERS][k]
\* exactly when the key code read in the iteration equals ord(k).
C13_SnapshotIffKeyMatches ==
    iter.keyRead =>
        \A k \in config.labels : k \in iter.snaps <=> key = Ord(k)

\* C13 amended: ... exactly when the key code equals ord(k) and is not one
\* the loop handles before the labels: 27 (Esc) in both scripts, 190 and 191
\* in DataHandler.  No other folder is written, so a key matching no label
\* key and an iteration without key (-1) write no snapshot.
Reserved(prog, k) == k = Esc \/ (prog = "DataHandler" /\ k \in {F1, F2})

C13_SnapshotIffUnreservedKeyMatches ==
    iter.keyRead =>
        /\ \A k \in config.labels :
              k \in iter.snaps <=> (key = Ord(k) /\ ~Reserved(program, key))
        /\ iter.snaps \subseteq config.labels
        /\ key = NoKey => iter.snaps = {}

C13_Witness ==
    /\ iter.keyRead /\ key = 49
    /\ config.labels = {"1", "xbf"}
    /\ iter.snaps = {"1"}

\* C14: in food_monitor food_status.png is written and previous_food_status
\* changed only on a frame whose class differs from previous_food_status
\* with confidence above config[CONFIDENCE], and only once more than
\* config[DELAY_INTERVAL] such frames were counted since the last change
\* (or the start); the counter is 0 after a change, and two consecutive
\* changes are at least DELAY_INTERVAL + 1 frames apart.
C14_StatusChangeDelayed ==
    program = "food_monitor" =>
        /\ \A i \in 1 .. Len(changes) :
              LET e == changes[i]
                  since == IF i = 1 THEN 0 ELSE changes[i - 1].frame
              IN /\ e.cls # e.prev
                 /\ e.conf > config.confidence
                 /\ e.qual > config.delay
                 /\ e.frame - since >= config.delay + 1
        /\ iter.status =>
              (/\ changes # <<>>
               /\ changes[Len(changes)].frame = frame
               /\ previous_food_status = changes[Len(changes)].cls)
        /\ (iter.status /\ lpc = "key") => counter = 0
        /\ changes = <<>> => previous_food_status = InitialFoodStatus

C14_Witness ==
    /\ program = "food_monitor" /\ config.delay = 1
    /\ Len(changes) = 1 /\ changes[1].frame = 3 /\ changes[1].qual = 2
    /\ iter.status

====
